---- MODULE Spec2Model ----
(***************************************************************************)
(* SmartSpend: the REST route handlers (expenses, budgets, recurring       *)
(* expenses, categories, statistics, user profile) over the relational     *)
(* tables of lib/db/schema.ts, and the forecast endpoint that reads the    *)
(* artifact ml_pipeline/latest_forecast.txt together with the hook and the *)
(* insights card that show it.                                             *)
(*                                                                         *)
(* Conventions.  A request-body field or query parameter that is absent is *)
(* the string Undef (text fields) or the number Null (ids, dates).  Ids    *)
(* are naturals: the ids the server generates (nanoid, uuid defaults) come *)
(* from the counters nextId (expenses, budgets, recurring expenses) and    *)
(* nextCategoryId (categories) and are never reused; the ids a client      *)
(* sends are drawn from IdInputs and CategoryIdInputs.  Dates and the      *)
(* clock are day numbers; BadDate is a text that new Date() turns into an  *)
(* Invalid Date, which an insert or update rejects by throwing.  A         *)
(* statement that violates a primary-key or foreign-key constraint of the  *)
(* schema throws as well, and the handler's catch block answers 500.       *)
(* Every authenticated user is assumed to have a row in the users table.   *)
(* resp records the caller and the status of the response to the request   *)
(* served last.  The status a PUT or DELETE answers with is the ..._Status *)
(* operator of the handler and the row it writes its ..._Set operator; the *)
(* rows a list request returns are the ..._Rows and ..._Joined operators;  *)
(* the order of the rows is not modelled.  The figures GET /api/statistics *)
(* answers with are the operators totalExpenses, monthlyChange and         *)
(* expensesOverTime (and ..._Monthly for the revision that builds the      *)
(* series month by month); day 1 is the first day of month 0 and a month   *)
(* is taken as DaysPerMonth days.                                          *)
(***************************************************************************)
EXTENDS Integers, FiniteSets, Sequences, TLC

\* ------------------------------------------------------------------ bounds
MaxIds == 1
MaxClock == 2
MaxRuns == 2

\* --------------------------------------------------------------- constants
Users == {"u1", "u2"}
NoUser == "anonymous"
Null == 0
Undef == "undefined"
NaN == 0 - 1000000
BadDate == 0 - 1

StaticCategoryId == 90
FoodDiningKey == 91
IdInputs == 1 .. MaxIds
IdParams == IdInputs \cup {Null}
Callers == Users \cup {NoUser}
CategoryIdInputs == {1, StaticCategoryId}

VARIABLES
  categories, expenses, budgets, recurringExpenses,  \* the tables
  nextId, nextCategoryId,                            \* id generators
  resp,                                              \* last REST response
  now,                                               \* the clock, in days
  latestForecast,                                    \* ml_pipeline/latest_forecast.txt
  staging,                                           \* the publisher's temporary file
  job,                                               \* per user: the pipeline job
  modelRuns,                                         \* invocations of the forecast model
  fresp,                                             \* last response of /api/forecast
  hook,                                              \* useForecast state of the page
  readsSincePublish                                  \* lastUpdated values served for the current artifact

db == <<categories, expenses, budgets, recurringExpenses, nextId, nextCategoryId>>
fvars == <<latestForecast, staging, job, modelRuns, fresp, hook, readsSincePublish>>
fvarsServer == <<latestForecast, staging, job, modelRuns, fresp, readsSincePublish>>
vars == <<categories, expenses, budgets, recurringExpenses, nextId, nextCategoryId,
          resp, now, latestForecast, staging, job, modelRuns, fresp, hook,
          readsSincePublish>>

\* ----------------------------------------------------------------- helpers
\* the JSON number 0 in a request body (amount: 0), as opposed to the text "0"
NumberZero == "0 (number)"

\* JavaScript truthiness of a body field: undefined, "" and the number 0 are
\* falsy; every other text, "0" included, is truthy.
Falsy(s) == s \in {Undef, "", NumberZero}

\* parseFloat over the request texts the model sends; no number -> NaN.
ParseFloat(s) ==
  CASE s = "10" -> 10
    [] s = "20" -> 20
    [] s = "0" -> 0
    [] s = NumberZero -> 0
    [] s = "-5" -> 0 - 5
    [] OTHER -> NaN

\* NextResponse.json(body, { status })
Reply(user, status) == [user |-> user, status |-> status]

\* if (!userId) return NextResponse.json({ error: 'Unauthorized' }, { status: 401 })
Unauthorized == Reply(NoUser, 401)

\* A request that only answers: no table, counter, clock or forecast state changes.
Answer(r) == resp' = r /\ UNCHANGED <<db, now, fvars>>

\* select ... where id = id and userId = user
Find(table, id, user) == {r \in table : r.id = id /\ r.userId = user}

\* update ... set ... where id = old.id
Replace(table, old, new) == (table \ {old}) \cup {new}

\* The foreign key category_id -> categories.id of the schema.
CategoryExists(cid) == \E c \in categories : c.id = cid

\* The values getDefaultCategoryId can return: any category of the user
\* (select ... where userId limit 1 has no order), or, when the user has
\* none, the id of the 'General' category it inserts.  Each result is
\* <<category id, categories after the call, category ids consumed>>.
getDefaultCategoryId(userId) ==
  LET own == {c \in categories : c.userId = userId}
  IN IF own # {}
       THEN {<<c.id, categories, 0>> : c \in own}
       ELSE {<<nextCategoryId, categories \cup
                {[id |-> nextCategoryId, name |-> "General", color |-> "#607D8B",
                  icon |-> "category", isDefault |-> TRUE,
                  userId |-> userId, createdAt |-> now, updatedAt |-> now]}, 1>>}

\* the least element of a non-empty set of integers
Least(S) == CHOOSE i \in S : \A j \in S : i <= j

\* ------------------------------------------------ app/api/expenses/route.ts
\* where-clause of GET /api/expenses: the user filter plus the optional ones.
ExpenseFilter(r, userId, q) ==
  /\ r.userId = userId
  /\ (q.startDate # Null => r.date >= q.startDate)
  /\ (q.endDate # Null => r.date <= q.endDate)
  /\ (q.categoryId # Null => r.categoryId = q.categoryId)
  /\ (~Falsy(q.minAmount) => r.amount >= ParseFloat(q.minAmount))
  /\ (~Falsy(q.maxAmount) => r.amount <= ParseFloat(q.maxAmount))

\* { expenses: expensesList }
ExpensesGET_Rows(userId, q) == {r \in expenses : ExpenseFilter(r, userId, q)}

ExpensesGET(userId, q) ==
  Answer(IF userId = NoUser THEN Unauthorized ELSE Reply(userId, 200))

NewExpense(id, body, categoryId, userId) ==
  [id |-> id, amount |-> ParseFloat(body.amount),
   description |-> body.description, date |-> body.date,
   categoryId |-> categoryId, userId |-> userId,
   paymentMethod |-> IF Falsy(body.paymentMethod) THEN "null" ELSE body.paymentMethod,
   location |-> IF Falsy(body.location) THEN "null" ELSE body.location,
   isRecurring |-> FALSE, createdAt |-> now, updatedAt |-> now]

MissingExpenseFields(body) ==
  Falsy(body.amount) \/ Falsy(body.description) \/ body.date = Null

\* db.insert(expenses).values(...) of the POST handlers: the row is stored
\* under a fresh id, or the insert throws on an Invalid Date.
InsertExpense(userId, body, categoryId) ==
  /\ IF body.date = BadDate
       THEN /\ resp' = Reply(userId, 500)
            /\ UNCHANGED <<expenses, nextId>>
       ELSE /\ nextId <= MaxIds
            /\ expenses' = expenses \cup {NewExpense(nextId, body, categoryId, userId)}
            /\ nextId' = nextId + 1
            /\ resp' = Reply(userId, 201)
  /\ UNCHANGED <<budgets, recurringExpenses, now, fvars>>

\* POST /api/expenses: the category of the form is ignored, the expense is
\* filed under the user's default category.
ExpensesPOST(userId, body) ==
  IF userId = NoUser THEN Answer(Unauthorized)
  ELSE IF MissingExpenseFields(body) THEN Answer(Reply(userId, 400))
  ELSE \E d \in getDefaultCategoryId(userId) :
         /\ categories' = d[2]
         /\ nextCategoryId' = nextCategoryId + d[3]
         /\ InsertExpense(userId, body, d[1])

\* .set({...}) of PUT /api/expenses
ExpensesPUT_Set(old, body) ==
  [old EXCEPT !.amount = ParseFloat(body.amount),
              !.description = body.description,
              !.date = body.date,
              !.categoryId = IF body.categoryId # Null THEN body.categoryId ELSE @,
              !.paymentMethod = IF Falsy(body.paymentMethod) THEN @ ELSE body.paymentMethod,
              !.location = IF Falsy(body.location) THEN @ ELSE body.location,
              !.updatedAt = now]

\* the status PUT /api/expenses answers with
ExpensesPUT_Status(userId, body) ==
  IF userId = NoUser THEN 401
  ELSE IF body.id = Null \/ MissingExpenseFields(body) THEN 400
  ELSE IF Find(expenses, body.id, userId) = {} THEN 404
  ELSE IF body.date = BadDate
          \/ \E old \in Find(expenses, body.id, userId) :
               ~CategoryExists(ExpensesPUT_Set(old, body).categoryId)
    THEN 500
  ELSE 200

\* PUT /api/expenses (id in the body): a full update of one's own expense.
ExpensesPUT(userId, body) ==
  IF ExpensesPUT_Status(userId, body) = 200
    THEN \E old \in Find(expenses, body.id, userId) :
           /\ expenses' = Replace(expenses, old, ExpensesPUT_Set(old, body))
           /\ resp' = Reply(userId, 200)
           /\ UNCHANGED <<categories, budgets, recurringExpenses, nextId,
                          nextCategoryId, now, fvars>>
    ELSE Answer(Reply(userId, ExpensesPUT_Status(userId, body)))

ExpensesDELETE_Status(userId, id) ==
  IF userId = NoUser THEN 401
  ELSE IF id = Null THEN 400
  ELSE IF Find(expenses, id, userId) = {} THEN 404
  ELSE 200

\* DELETE /api/expenses?id=...
ExpensesDELETE(userId, id) ==
  IF ExpensesDELETE_Status(userId, id) = 200
    THEN /\ expenses' = {r \in expenses : r.id # id}
         /\ resp' = Reply(userId, 200)
         /\ UNCHANGED <<categories, budgets, recurringExpenses, nextId,
                        nextCategoryId, now, fvars>>
    ELSE Answer(Reply(userId, ExpensesDELETE_Status(userId, id)))

\* ------------------------------ app/api/expenses/route.ts, later revision
\* staticCategoryMap[categoryId] || { name: 'Other', ... }
staticCategoryMap(categoryId) ==
  IF categoryId = FoodDiningKey
    THEN [name |-> "Food & Dining", color |-> "#FF5722", icon |-> "restaurant"]
    ELSE [name |-> "Other", color |-> "#607D8B", icon |-> "more-horiz"]

\* POST /api/expenses that keeps the category of the form, creating the
\* category row under the id the client sent when the user has none with it.
\* The category insert is not undone when the expense insert then throws.
ExpensesPOST_WithCategory(userId, body) ==
  IF userId = NoUser THEN Answer(Unauthorized)
  ELSE IF MissingExpenseFields(body) THEN Answer(Reply(userId, 400))
  ELSE IF body.categoryId # Null /\ Find(categories, body.categoryId, userId) # {} THEN
    /\ UNCHANGED <<categories, nextCategoryId>>
    /\ InsertExpense(userId, body, body.categoryId)
  ELSE IF body.categoryId # Null /\ CategoryExists(body.categoryId) THEN
    \* the id is the primary key of another user's category: the insert throws
    Answer(Reply(userId, 500))
  ELSE IF body.categoryId # Null THEN
    /\ categories' = categories \cup
         {[id |-> body.categoryId, name |-> staticCategoryMap(body.categoryId).name,
           color |-> staticCategoryMap(body.categoryId).color,
           icon |-> staticCategoryMap(body.categoryId).icon,
           isDefault |-> FALSE, userId |-> userId, createdAt |-> now, updatedAt |-> now]}
    /\ UNCHANGED nextCategoryId
    /\ InsertExpense(userId, body, body.categoryId)
  ELSE \E d \in getDefaultCategoryId(userId) :
         /\ categories' = d[2]
         /\ nextCategoryId' = nextCategoryId + d[3]
         /\ InsertExpense(userId, body, d[1])

\* ------------------------------------------- app/api/expenses/[id]/route.ts
ExpenseByIdGET_Rows(userId, id) == Find(expenses, id, userId)

ExpenseByIdGET(userId, id) ==
  Answer(IF userId = NoUser THEN Unauthorized
         ELSE IF Find(expenses, id, userId) = {} THEN Reply(userId, 404)
         ELSE Reply(userId, 200))

\* updateData of PUT /api/expenses/[id]: the fields present in the body
\* Mutation: the description is written whether or not the body carries it,
\* as the full update of PUT /api/expenses does.
ExpenseByIdPUT_Set_Full(old, body) ==
  [old EXCEPT !.amount = IF body.amount # Undef THEN ParseFloat(body.amount) ELSE @,
              !.description = body.description,
              !.date = IF body.date # Null THEN body.date ELSE @,
              !.categoryId = IF body.categoryId # Null THEN body.categoryId ELSE @,
              !.paymentMethod = IF body.paymentMethod # Undef THEN body.paymentMethod ELSE @,
              !.location = IF body.location # Undef THEN body.location ELSE @,
              !.isRecurring = IF body.isRecurring # Undef THEN body.isRecurring = "true" ELSE @,
              !.updatedAt = now]

ExpenseByIdPUT_Set(old, body) ==
  [old EXCEPT !.amount = IF body.amount # Undef THEN ParseFloat(body.amount) ELSE @,
              !.description = IF body.description # Undef THEN body.description ELSE @,
              !.date = IF body.date # Null THEN body.date ELSE @,
              !.categoryId = IF body.categoryId # Null THEN body.categoryId ELSE @,
              !.paymentMethod = IF body.paymentMethod # Undef THEN body.paymentMethod ELSE @,
              !.location = IF body.location # Undef THEN body.location ELSE @,
              !.isRecurring = IF body.isRecurring # Undef THEN body.isRecurring = "true" ELSE @,
              !.updatedAt = now]

ExpenseByIdPUT_Status(userId, id, body) ==
  IF userId = NoUser THEN 401
  ELSE IF Find(expenses, id, userId) = {} THEN 404
  ELSE IF body.date = BadDate
          \/ \E old \in Find(expenses, id, userId) :
               ~CategoryExists(ExpenseByIdPUT_Set(old, body).categoryId)
    THEN 500
  ELSE 200

\* PUT /api/expenses/[id]: the fields present in the body, plus updatedAt.
ExpenseByIdPUT(userId, id, body) ==
  IF ExpenseByIdPUT_Status(userId, id, body) = 200
    THEN \E old \in Find(expenses, id, userId) :
           /\ expenses' = Replace(expenses, old, ExpenseByIdPUT_Set(old, body))
           /\ resp' = Reply(userId, 200)
           /\ UNCHANGED <<categories, budgets, recurringExpenses, nextId,
                          nextCategoryId, now, fvars>>
    ELSE Answer(Reply(userId, ExpenseByIdPUT_Status(userId, id, body)))

\* Mutation: a DELETE that finds no expense is answered as a success.
ExpenseByIdDELETE_Status_Idempotent(userId, id) ==
  IF userId = NoUser THEN 401 ELSE 200

ExpenseByIdDELETE_Status(userId, id) ==
  IF userId = NoUser THEN 401
  ELSE IF Find(expenses, id, userId) = {} THEN 404
  ELSE 200

ExpenseByIdDELETE(userId, id) ==
  IF ExpenseByIdDELETE_Status(userId, id) = 200
    THEN /\ expenses' = expenses \ Find(expenses, id, userId)
         /\ resp' = Reply(userId, 200)
         /\ UNCHANGED <<categories, budgets, recurringExpenses, nextId,
                        nextCategoryId, now, fvars>>
    ELSE Answer(Reply(userId, ExpenseByIdDELETE_Status(userId, id)))

\* -------------------- expenses route, revision with the static category id
\* POST that files every expense under the fixed category id.
ExpensesPOST_Static(userId, body) ==
  IF userId = NoUser THEN Answer(Unauthorized)
  ELSE IF MissingExpenseFields(body) \/ body.categoryId = Null
    THEN Answer(Reply(userId, 400))
  ELSE IF ~CategoryExists(StaticCategoryId) THEN Answer(Reply(userId, 500))
  ELSE /\ UNCHANGED <<categories, nextCategoryId>>
       /\ InsertExpense(userId, body, StaticCategoryId)

\* -------------------------------------------------- app/api/budgets/route.ts
ValidPeriods == {"weekly", "monthly", "yearly"}

\* Mutation: the where-clause without the user filter.
BudgetFilter_AnyUser(r, userId, q) ==
  /\ (q.categoryId # Null => r.categoryId = q.categoryId)
  /\ (~Falsy(q.period) => r.period = q.period)

\* where-clause of GET /api/budgets: the user filter plus the optional ones.
BudgetFilter(r, userId, q) ==
  /\ r.userId = userId
  /\ (q.categoryId # Null => r.categoryId = q.categoryId)
  /\ (~Falsy(q.period) => r.period = q.period)

\* { budgets: budgetsList }
BudgetsGET_Rows(userId, q) == {r \in budgets : BudgetFilter(r, userId, q)}

BudgetsGET(userId, q) ==
  Answer(IF userId = NoUser THEN Unauthorized ELSE Reply(userId, 200))

NewBudget(id, body, userId) ==
  [id |-> id, amount |-> ParseFloat(body.amount), period |-> body.period,
   startDate |-> body.startDate, categoryId |-> body.categoryId,
   userId |-> userId, createdAt |-> now, updatedAt |-> now]

MissingBudgetFields(body) ==
  Falsy(body.amount) \/ Falsy(body.period) \/ body.startDate = Null

\* db.insert(budgets).values(...) of the POST handlers.
InsertBudget(userId, body) ==
  IF (body.categoryId # Null /\ ~CategoryExists(body.categoryId)) \/ body.startDate = BadDate
    THEN Answer(Reply(userId, 500))
    ELSE /\ nextId <= MaxIds
         /\ budgets' = budgets \cup {NewBudget(nextId, body, userId)}
         /\ nextId' = nextId + 1
         /\ resp' = Reply(userId, 201)
         /\ UNCHANGED <<categories, expenses, recurringExpenses, nextCategoryId, now, fvars>>

\* POST /api/budgets with the period check; the category id is stored as sent.
BudgetsPOST(userId, body) ==
  IF userId = NoUser THEN Answer(Unauthorized)
  ELSE IF MissingBudgetFields(body) THEN Answer(Reply(userId, 400))
  ELSE IF body.period \notin ValidPeriods THEN Answer(Reply(userId, 400))
  ELSE InsertBudget(userId, body)

\* ------------------------ app/api/budgets/route.ts, revision with categories
\* GET /api/budgets that attaches to each budget the category row that has
\* the budget's categoryId (looked up by id alone).
BudgetsGET_WithCategories_Rows(userId) == {r \in budgets : r.userId = userId}

BudgetsGET_WithCategories_Joined(userId) ==
  {c \in categories : \E r \in BudgetsGET_WithCategories_Rows(userId) : r.categoryId = c.id}

BudgetsGET_WithCategories(userId) ==
  Answer(IF userId = NoUser THEN Unauthorized ELSE Reply(userId, 200))

\* POST /api/budgets that checks the category belongs to the user (and does
\* not check the period).
BudgetsPOST_Checked(userId, body) ==
  IF userId = NoUser THEN Answer(Unauthorized)
  ELSE IF MissingBudgetFields(body) THEN Answer(Reply(userId, 400))
  ELSE IF body.categoryId # Null /\ Find(categories, body.categoryId, userId) = {}
    THEN Answer(Reply(userId, 404))
  ELSE InsertBudget(userId, body)

\* .set({...}) of PUT /api/budgets
BudgetsPUT_Set(old, body) ==
  [old EXCEPT !.amount = ParseFloat(body.amount),
              !.period = body.period,
              !.startDate = body.startDate,
              !.categoryId = body.categoryId,
              !.updatedAt = now]

BudgetsPUT_Status(userId, body) ==
  IF userId = NoUser THEN 401
  ELSE IF body.id = Null \/ MissingBudgetFields(body) THEN 400
  ELSE IF Find(budgets, body.id, userId) = {} THEN 404
  ELSE IF body.categoryId # Null /\ Find(categories, body.categoryId, userId) = {} THEN 404
  ELSE IF body.startDate = BadDate THEN 500
  ELSE 200

\* PUT /api/budgets (id in the body): a full update of one's own budget.
BudgetsPUT(userId, body) ==
  IF BudgetsPUT_Status(userId, body) = 200
    THEN \E old \in Find(budgets, body.id, userId) :
           /\ budgets' = Replace(budgets, old, BudgetsPUT_Set(old, body))
           /\ resp' = Reply(userId, 200)
           /\ UNCHANGED <<categories, expenses, recurringExpenses, nextId,
                          nextCategoryId, now, fvars>>
    ELSE Answer(Reply(userId, BudgetsPUT_Status(userId, body)))

BudgetsDELETE_Status(userId, id) ==
  IF userId = NoUser THEN 401
  ELSE IF id = Null THEN 400
  ELSE IF Find(budgets, id, userId) = {} THEN 404
  ELSE 200

\* DELETE /api/budgets?id=...
BudgetsDELETE(userId, id) ==
  IF BudgetsDELETE_Status(userId, id) = 200
    THEN /\ budgets' = {r \in budgets : r.id # id}
         /\ resp' = Reply(userId, 200)
         /\ UNCHANGED <<categories, expenses, recurringExpenses, nextId,
                        nextCategoryId, now, fvars>>
    ELSE Answer(Reply(userId, BudgetsDELETE_Status(userId, id)))

\* --------------------------------------------- app/api/budgets/[id]/route.ts
BudgetByIdGET_Rows(userId, id) == Find(budgets, id, userId)

BudgetByIdGET(userId, id) ==
  Answer(IF userId = NoUser THEN Unauthorized
         ELSE IF Find(budgets, id, userId) = {} THEN Reply(userId, 404)
         ELSE Reply(userId, 200))

\* A body categoryId of "" or null: body.categoryId || null stores NULL.
ClearCategory == 0 - 2

\* updates of PUT /api/budgets/[id]: the fields present in the body
BudgetByIdPUT_Set(old, body) ==
  [old EXCEPT !.amount = IF body.amount # Undef THEN ParseFloat(body.amount) ELSE @,
              !.period = IF body.period # Undef THEN body.period ELSE @,
              !.startDate = IF body.startDate # Null THEN body.startDate ELSE @,
              !.categoryId = IF body.categoryId = ClearCategory THEN Null
                             ELSE IF body.categoryId # Null THEN body.categoryId ELSE @,
              !.updatedAt = now]

\* Mutation: the handler without the check of the session.
BudgetByIdPUT_Status_NoAuth(userId, id, body) ==
  IF Find(budgets, id, userId) = {} THEN 404
  ELSE IF body.period # Undef /\ body.period \notin ValidPeriods THEN 400
  ELSE 200

BudgetByIdPUT_Status(userId, id, body) ==
  IF userId = NoUser THEN 401
  ELSE IF Find(budgets, id, userId) = {} THEN 404
  ELSE IF body.period # Undef /\ body.period \notin ValidPeriods THEN 400
  ELSE IF body.startDate = BadDate
          \/ \E old \in Find(budgets, id, userId) :
               LET c == BudgetByIdPUT_Set(old, body).categoryId
               IN c # Null /\ ~CategoryExists(c)
    THEN 500
  ELSE 200

\* PUT /api/budgets/[id]: the fields present in the body, plus updatedAt.
BudgetByIdPUT(userId, id, body) ==
  IF BudgetByIdPUT_Status(userId, id, body) = 200
    THEN \E old \in Find(budgets, id, userId) :
           /\ budgets' = Replace(budgets, old, BudgetByIdPUT_Set(old, body))
           /\ resp' = Reply(userId, 200)
           /\ UNCHANGED <<categories, expenses, recurringExpenses, nextId,
                          nextCategoryId, now, fvars>>
    ELSE Answer(Reply(userId, BudgetByIdPUT_Status(userId, id, body)))

BudgetByIdDELETE_Status(userId, id) ==
  IF userId = NoUser THEN 401
  ELSE IF Find(budgets, id, userId) = {} THEN 404
  ELSE 200

BudgetByIdDELETE(userId, id) ==
  IF BudgetByIdDELETE_Status(userId, id) = 200
    THEN /\ budgets' = budgets \ Find(budgets, id, userId)
         /\ resp' = Reply(userId, 200)
         /\ UNCHANGED <<categories, expenses, recurringExpenses, nextId,
                        nextCategoryId, now, fvars>>
    ELSE Answer(Reply(userId, BudgetByIdDELETE_Status(userId, id)))

\* --------------------------------------- app/api/recurring-expenses/route.ts
ValidFrequencies == {"weekly", "monthly", "yearly"}

RecurringFilter(r, userId, q) ==
  /\ r.userId = userId
  /\ (q.categoryId # Null => r.categoryId = q.categoryId)
  /\ (~Falsy(q.frequency) => r.frequency = q.frequency)
  /\ (q.active = "true" => (r.endDate = Null \/ r.endDate >= now))

\* { recurringExpenses: recurringExpensesList }
RecurringGET_Rows(userId, q) == {r \in recurringExpenses : RecurringFilter(r, userId, q)}

RecurringGET(userId, q) ==
  Answer(IF userId = NoUser THEN Unauthorized ELSE Reply(userId, 200))

NewRecurring(id, body, userId) ==
  [id |-> id, amount |-> ParseFloat(body.amount), description |-> body.description,
   frequency |-> body.frequency, startDate |-> body.startDate,
   endDate |-> body.endDate, categoryId |-> body.categoryId,
   userId |-> userId, createdAt |-> now, updatedAt |-> now]

MissingRecurringFields(body) ==
  \/ Falsy(body.amount) \/ Falsy(body.description) \/ Falsy(body.frequency)
  \/ body.startDate = Null \/ body.categoryId = Null

\* db.insert(recurringExpenses).values(...) of the POST handlers.
InsertRecurring(userId, body, okStatus) ==
  IF ~CategoryExists(body.categoryId) \/ body.startDate = BadDate
    THEN Answer(Reply(userId, 500))
    ELSE /\ nextId <= MaxIds
         /\ recurringExpenses' = recurringExpenses \cup {NewRecurring(nextId, body, userId)}
         /\ nextId' = nextId + 1
         /\ resp' = Reply(userId, okStatus)
         /\ UNCHANGED <<categories, expenses, budgets, nextCategoryId, now, fvars>>

RecurringPOST(userId, body) ==
  IF userId = NoUser THEN Answer(Unauthorized)
  ELSE IF MissingRecurringFields(body) THEN Answer(Reply(userId, 400))
  ELSE IF body.frequency \notin ValidFrequencies THEN Answer(Reply(userId, 400))
  ELSE InsertRecurring(userId, body, 201)

\* ------------- app/api/recurring-expenses/route.ts, revision with the join
\* GET /api/recurring-expenses joined with categories on the category id.
RecurringGET_Joined_Rows(userId, q) ==
  {r \in recurringExpenses :
     /\ r.userId = userId
     /\ (q.categoryId # Null => r.categoryId = q.categoryId)
     /\ (q.id # Null => r.id = q.id)
     /\ CategoryExists(r.categoryId)}

\* the categories whose name, color and icon the join copies into the rows
RecurringGET_Joined_Joined(userId, q) ==
  {c \in categories : \E r \in RecurringGET_Joined_Rows(userId, q) : r.categoryId = c.id}

RecurringGET_Joined(userId, q) ==
  Answer(IF userId = NoUser THEN Unauthorized ELSE Reply(userId, 200))

\* POST without the frequency check; answers 200.  The amount is stored as
\* sent; for the numeric texts sent here the column holds the same number.
RecurringPOST_Joined(userId, body) ==
  IF userId = NoUser THEN Answer(Unauthorized)
  ELSE IF MissingRecurringFields(body) THEN Answer(Reply(userId, 400))
  ELSE InsertRecurring(userId, body, 200)

\* .set({...}) of PUT /api/recurring-expenses
RecurringPUT_Set(old, body) ==
  [old EXCEPT !.amount = ParseFloat(body.amount),
              !.description = body.description,
              !.frequency = body.frequency,
              !.startDate = body.startDate,
              !.endDate = body.endDate,
              !.categoryId = body.categoryId,
              !.updatedAt = now]

RecurringPUT_Status(userId, body) ==
  IF userId = NoUser THEN 401
  ELSE IF body.id = Null THEN 400
  ELSE IF MissingRecurringFields(body) THEN 400
  ELSE IF Find(recurringExpenses, body.id, userId) = {} THEN 404
  ELSE IF ~CategoryExists(body.categoryId) \/ body.startDate = BadDate THEN 500
  ELSE 200

\* PUT /api/recurring-expenses (id in the body): a full update.
RecurringPUT(userId, body) ==
  IF RecurringPUT_Status(userId, body) = 200
    THEN \E old \in Find(recurringExpenses, body.id, userId) :
           /\ recurringExpenses' = Replace(recurringExpenses, old, RecurringPUT_Set(old, body))
           /\ resp' = Reply(userId, 200)
           /\ UNCHANGED <<categories, expenses, budgets, nextId, nextCategoryId,
                          now, fvars>>
    ELSE Answer(Reply(userId, RecurringPUT_Status(userId, body)))

RecurringDELETE_Status(userId, id) ==
  IF userId = NoUser THEN 401
  ELSE IF id = Null THEN 400
  ELSE IF Find(recurringExpenses, id, userId) = {} THEN 404
  ELSE 200

\* DELETE /api/recurring-expenses?id=...
RecurringDELETE(userId, id) ==
  IF RecurringDELETE_Status(userId, id) = 200
    THEN /\ recurringExpenses' = recurringExpenses \ Find(recurringExpenses, id, userId)
         /\ resp' = Reply(userId, 200)
         /\ UNCHANGED <<categories, expenses, budgets, nextId, nextCategoryId,
                        now, fvars>>
    ELSE Answer(Reply(userId, RecurringDELETE_Status(userId, id)))

\* ---------------------------------- app/api/recurring-expenses/[id]/route.ts
RecurringByIdGET_Rows(userId, id) == Find(recurringExpenses, id, userId)

RecurringByIdGET(userId, id) ==
  Answer(IF userId = NoUser THEN Unauthorized
         ELSE IF Find(recurringExpenses, id, userId) = {} THEN Reply(userId, 404)
         ELSE Reply(userId, 200))

\* A body endDate of null or "": the end date is cleared.
ClearDate == 0 - 2

\* updates of PUT /api/recurring-expenses/[id]: the fields present in the body
RecurringByIdPUT_Set(old, body) ==
  [old EXCEPT !.amount = IF body.amount # Undef THEN ParseFloat(body.amount) ELSE @,
              !.description = IF body.description # Undef THEN body.description ELSE @,
              !.frequency = IF body.frequency # Undef THEN body.frequency ELSE @,
              !.startDate = IF body.startDate # Null THEN body.startDate ELSE @,
              !.endDate = IF body.endDate = ClearDate THEN Null
                          ELSE IF body.endDate # Null THEN body.endDate ELSE @,
              !.categoryId = IF body.categoryId # Null THEN body.categoryId ELSE @,
              !.updatedAt = now]

RecurringByIdPUT_Status(userId, id, body) ==
  IF userId = NoUser THEN 401
  ELSE IF Find(recurringExpenses, id, userId) = {} THEN 404
  ELSE IF body.frequency # Undef /\ body.frequency \notin ValidFrequencies THEN 400
  ELSE IF body.startDate = BadDate
          \/ \E old \in Find(recurringExpenses, id, userId) :
               ~CategoryExists(RecurringByIdPUT_Set(old, body).categoryId)
    THEN 500
  ELSE 200

\* PUT /api/recurring-expenses/[id]: the fields present in the body, plus updatedAt.
RecurringByIdPUT(userId, id, body) ==
  IF RecurringByIdPUT_Status(userId, id, body) = 200
    THEN \E old \in Find(recurringExpenses, id, userId) :
           /\ recurringExpenses' = Replace(recurringExpenses, old,
                                           RecurringByIdPUT_Set(old, body))
           /\ resp' = Reply(userId, 200)
           /\ UNCHANGED <<categories, expenses, budgets, nextId, nextCategoryId,
                          now, fvars>>
    ELSE Answer(Reply(userId, RecurringByIdPUT_Status(userId, id, body)))

\* Mutation: the record is looked up by id alone.
RecurringByIdDELETE_Status_AnyOwner(userId, id) ==
  IF userId = NoUser THEN 401
  ELSE IF {r \in recurringExpenses : r.id = id} = {} THEN 404
  ELSE 200

RecurringByIdDELETE_Status(userId, id) ==
  IF userId = NoUser THEN 401
  ELSE IF Find(recurringExpenses, id, userId) = {} THEN 404
  ELSE 200

RecurringByIdDELETE(userId, id) ==
  IF RecurringByIdDELETE_Status(userId, id) = 200
    THEN /\ recurringExpenses' = recurringExpenses \ Find(recurringExpenses, id, userId)
         /\ resp' = Reply(userId, 200)
         /\ UNCHANGED <<categories, expenses, budgets, nextId, nextCategoryId,
                        now, fvars>>
    ELSE Answer(Reply(userId, RecurringByIdDELETE_Status(userId, id)))

\* ------------------------------------------ app/api/categories/[id]/route.ts
CategoryByIdGET_Rows(userId, id) == Find(categories, id, userId)

CategoryByIdGET(userId, id) ==
  Answer(IF userId = NoUser THEN Unauthorized
         ELSE IF Find(categories, id, userId) = {} THEN Reply(userId, 404)
         ELSE Reply(userId, 200))

\* The foreign keys into categories: a referenced category cannot be deleted.
CategoryReferenced(cid) ==
  \E r \in expenses \cup budgets \cup recurringExpenses : r.categoryId = cid

\* .set({...}) of PUT /api/categories/[id]
CategoryByIdPUT_Set(old, body) ==
  [old EXCEPT !.name = IF body.name # Undef THEN body.name ELSE @,
              !.color = IF body.color # Undef THEN body.color ELSE @,
              !.icon = IF body.icon # Undef THEN body.icon ELSE @,
              !.updatedAt = now]

CategoryByIdPUT_Status(userId, id, body) ==
  IF userId = NoUser THEN 401
  ELSE IF Find(categories, id, userId) = {} THEN 404
  ELSE IF \E c \in Find(categories, id, userId) : c.isDefault THEN 403
  ELSE 200

CategoryByIdPUT(userId, id, body) ==
  IF CategoryByIdPUT_Status(userId, id, body) = 200
    THEN \E old \in Find(categories, id, userId) :
           /\ categories' = Replace(categories, old, CategoryByIdPUT_Set(old, body))
           /\ resp' = Reply(userId, 200)
           /\ UNCHANGED <<expenses, budgets, recurringExpenses, nextId,
                          nextCategoryId, now, fvars>>
    ELSE Answer(Reply(userId, CategoryByIdPUT_Status(userId, id, body)))

\* Mutation: the handler without its test of isDefault.
CategoryByIdDELETE_Status_NoDefaultTest(userId, id) ==
  IF userId = NoUser THEN 401
  ELSE IF Find(categories, id, userId) = {} THEN 404
  ELSE IF CategoryReferenced(id) THEN 500
  ELSE 200

CategoryByIdDELETE_Status(userId, id) ==
  IF userId = NoUser THEN 401
  ELSE IF Find(categories, id, userId) = {} THEN 404
  ELSE IF \E c \in Find(categories, id, userId) : c.isDefault THEN 403
  ELSE IF CategoryReferenced(id) THEN 500
  ELSE 200

CategoryByIdDELETE(userId, id) ==
  IF CategoryByIdDELETE_Status(userId, id) = 200
    THEN /\ categories' = categories \ Find(categories, id, userId)
         /\ resp' = Reply(userId, 200)
         /\ UNCHANGED <<expenses, budgets, recurringExpenses, nextId,
                        nextCategoryId, now, fvars>>
    ELSE Answer(Reply(userId, CategoryByIdDELETE_Status(userId, id)))

\* ---------------------------------------------- app/api/statistics/route.ts
\* sum(expenses.amount) of the user's expenses in [startDate, endDate]
StatisticsRows(userId, q) ==
  {r \in expenses : r.userId = userId /\ r.date >= q.startDate /\ r.date <= q.endDate}

\* The calendar of the date arithmetic: a date is a day number, day 1 is the
\* first day of month 0, and every month is taken to have the same length.
DaysPerMonth == 30

MonthsPerYear == 12

\* getFullYear() * 12 + getMonth() of a date
getMonth(d) == (d - 1) \div DaysPerMonth

\* new Date(year, month, 1)
FirstOfMonth(m) == m * DaysPerMonth + 1

\* sum(expenses.amount) over a set of rows
RECURSIVE SumAmount(_)
SumAmount(rows) ==
  IF rows = {} THEN 0
  ELSE LET r == CHOOSE x \in rows : TRUE IN r.amount + SumAmount(rows \ {r})

\* the user's expenses dated within [from, to]
ExpensesBetween(userId, from, to) ==
  {r \in expenses : r.userId = userId /\ r.date >= from /\ r.date <= to}

\* searchParams.get('startDate') || first day of the current month
StatisticsStartDate(q) ==
  IF q.startDate = Null THEN FirstOfMonth(getMonth(now)) ELSE q.startDate

\* searchParams.get('endDate') || now
StatisticsEndDate(q) == IF q.endDate = Null THEN now ELSE q.endDate

\* totalExpensesResult[0]?.total || 0
totalExpenses(userId, q) ==
  SumAmount(ExpensesBetween(userId, StatisticsStartDate(q), StatisticsEndDate(q)))

\* previousMonthExpensesResult[0]?.total || 0: the month before the start date
previousMonthExpenses(userId, q) ==
  LET m == getMonth(StatisticsStartDate(q))
  IN SumAmount(ExpensesBetween(userId, FirstOfMonth(m - 1), FirstOfMonth(m) - 1))

\* A percentage is kept as the exact quotient num / den.
Percent(num, den) == [num |-> num, den |-> den]

\* monthlyChange of GET /api/statistics
monthlyChange(userId, q) ==
  LET cur == totalExpenses(userId, q)
      prev == previousMonthExpenses(userId, q)
  IN IF prev > 0 THEN Percent((cur - prev) * 100, prev) ELSE Percent(100, 1)

\* the rows of expensesOverTime: the user's expenses from the first day of the
\* start date's month one year earlier up to the end date
expensesOverTime_Rows(userId, q) ==
  ExpensesBetween(userId,
                  FirstOfMonth(getMonth(StatisticsStartDate(q)) - MonthsPerYear),
                  StatisticsEndDate(q))

\* the sequence of the months in S, ascending
RECURSIVE Ascending(_)
Ascending(S) ==
  IF S = {} THEN <<>> ELSE <<Least(S)>> \o Ascending(S \ {Least(S)})

\* expensesOverTime of GET /api/statistics: group by date_trunc('month', date),
\* order by it; one entry for each month that has a row
expensesOverTime(userId, q) ==
  LET rows == expensesOverTime_Rows(userId, q)
      months == Ascending({getMonth(r.date) : r \in rows})
  IN [i \in 1 .. Len(months) |->
        LET inMonth == {r \in rows : getMonth(r.date) = months[i]}
        IN [month |-> months[i], total |-> SumAmount(inMonth),
            count |-> Cardinality(inMonth)]]

\* Revision that builds the series month by month (date-fns).
\* currentMonthResult[0]?.total || 0: from the first of this month to now
currentMonthTotal(userId) ==
  SumAmount(ExpensesBetween(userId, FirstOfMonth(getMonth(now)), now))

\* previousMonthResult[0]?.total || 0: the month before the current one
previousMonthTotal(userId) ==
  SumAmount(ExpensesBetween(userId, FirstOfMonth(getMonth(now) - 1),
                            FirstOfMonth(getMonth(now)) - 1))

\* let monthlyChange = 0; if (previousMonthTotal > 0) { ... }
monthlyChange_Monthly(userId) ==
  LET cur == currentMonthTotal(userId)
      prev == previousMonthTotal(userId)
  IN IF prev > 0 THEN Percent((cur - prev) * 100, prev) ELSE Percent(0, 1)

\* while (currentDate <= end) { months.push(...); setMonth(getMonth() + 1) }
months_Monthly(q) ==
  Ascending({m \in getMonth(StatisticsStartDate(q)) .. getMonth(StatisticsEndDate(q)) :
               FirstOfMonth(m) <= StatisticsEndDate(q)})

\* expensesOverTime of that revision: one entry per month of the loop
expensesOverTime_Monthly(userId, q) ==
  LET months == months_Monthly(q)
  IN [i \in 1 .. Len(months) |->
        LET inMonth == ExpensesBetween(userId, FirstOfMonth(months[i]),
                                       FirstOfMonth(months[i] + 1) - 1)
        IN [month |-> months[i], total |-> SumAmount(inMonth),
            count |-> Cardinality(inMonth)]]

\* GET /api/statistics: reads only.
StatisticsGET(userId, q) ==
  Answer(IF userId = NoUser THEN Unauthorized ELSE Reply(userId, 200))

\* GET /api/statistics, revision that answers mock figures around the total.
StatisticsGET_Mock(userId, q) ==
  Answer(IF userId = NoUser THEN Unauthorized ELSE Reply(userId, 200))

\* GET /api/statistics, revision that builds the series month by month.
StatisticsGET_Monthly(userId, q) ==
  Answer(IF userId = NoUser THEN Unauthorized ELSE Reply(userId, 200))

\* -------------------------------------------- app/api/user/profile/route.ts
UserProfileGET(userId) ==
  Answer(IF userId = NoUser THEN Unauthorized ELSE Reply(userId, 200))

\* ------------------------------------------------ app/api/forecast/route.ts
\* A text is a sequence of tokens: single characters, and the words the
\* patterns of parseForecastText look for.
NoFile == <<"(no file)">>
Digits == {"0", "1", "2", "3", "4", "5", "6", "7", "8", "9"}
Whitespace == {" ", "\n"}

DigitValue(c) ==
  CASE c = "0" -> 0 [] c = "1" -> 1 [] c = "2" -> 2 [] c = "3" -> 3 [] c = "4" -> 4
    [] c = "5" -> 5 [] c = "6" -> 6 [] c = "7" -> 7 [] c = "8" -> 8 [] c = "9" -> 9

\* String.prototype.trim
RECURSIVE Trim(_)
Trim(t) ==
  IF t = <<>> THEN t
  ELSE IF Head(t) \in Whitespace THEN Trim(Tail(t))
  ELSE IF t[Len(t)] \in Whitespace THEN Trim(SubSeq(t, 1, Len(t) - 1))
  ELSE t

\* the last index of the run of tokens of S that starts at i (i - 1 if none)
RECURSIVE RunEnd(_, _, _)
RunEnd(t, i, S) ==
  IF i <= Len(t) /\ t[i] \in S THEN RunEnd(t, i + 1, S) ELSE i - 1

\* String.prototype.replace(',', ''): only the first comma goes.
RECURSIVE ReplaceFirstComma(_)
ReplaceFirstComma(s) ==
  IF s = <<>> THEN s
  ELSE IF Head(s) = "," THEN Tail(s)
  ELSE <<Head(s)>> \o ReplaceFirstComma(Tail(s))

\* parseInt(s, 10): the leading digits; NaN when there is none.
RECURSIVE DigitsToInt(_, _)
DigitsToInt(s, acc) ==
  IF s = <<>> \/ Head(s) \notin Digits THEN acc
  ELSE DigitsToInt(Tail(s), 10 * acc + DigitValue(Head(s)))

parseInt(s) == IF s = <<>> \/ Head(s) \notin Digits THEN NaN ELSE DigitsToInt(s, 0)

\* forecastText.match(/\$([0-9,]+)/): the set holding the captured group.
amountMatch(t) ==
  LET starts == {i \in 1 .. Len(t) - 1 : t[i] = "$" /\ t[i + 1] \in Digits \cup {","}}
  IN IF starts = {} THEN {}
     ELSE LET i == Least(starts)
          IN {SubSeq(t, i + 1, RunEnd(t, i + 1, Digits \cup {","}))}

\* forecastText.match(/([0-9]+)% (higher|lower)/): the set holding the groups.
percentMatch(t) ==
  LET starts == {i \in 1 .. Len(t) :
                   /\ t[i] \in Digits
                   /\ LET j == RunEnd(t, i, Digits)
                      IN /\ j + 3 <= Len(t)
                         /\ t[j + 1] = "%"
                         /\ t[j + 2] = " "
                         /\ t[j + 3] \in {"higher", "lower"}}
  IN IF starts = {} THEN {}
     ELSE LET i == Least(starts)
              j == RunEnd(t, i, Digits)
          IN {<<SubSeq(t, i, j), t[j + 3]>>}

parseForecastText(forecastText) ==
  LET am == amountMatch(forecastText)
      pm == percentMatch(forecastText)
  IN [amount |-> IF am # {} THEN parseInt(ReplaceFirstComma(CHOOSE m \in am : TRUE)) ELSE 0,
      percentChange |-> IF pm # {} THEN parseInt((CHOOSE m \in pm : TRUE)[1]) ELSE 0,
      trend |-> IF pm # {} THEN (CHOOSE m \in pm : TRUE)[2] ELSE "higher"]

\* the temporary file of a publish in progress, before it is complete and renamed
NoStaging == [text |-> <<>>, written |-> 0]
StagingContent(u) == SubSeq(staging[u].text, 1, staging[u].written)

\* Mutation: the read takes the file a publish is still writing.
getLatestForecast_Staging(readOk) ==
  IF \E u \in Users : staging[u] # NoStaging
    THEN [ok |-> TRUE,
          text |-> Trim(StagingContent(CHOOSE u \in Users : staging[u] # NoStaging)),
          error |-> "none"]
  ELSE IF latestForecast = NoFile
    THEN [ok |-> FALSE, text |-> <<>>, error |-> "ENOENT: no such file or directory"]
  ELSE IF ~readOk
    THEN [ok |-> FALSE, text |-> <<>>, error |-> "EIO: i/o error, read"]
  ELSE [ok |-> TRUE, text |-> Trim(latestForecast), error |-> "none"]

\* fs.readFile of ml_pipeline/latest_forecast.txt, trimmed; the read throws
\* when the file is absent and can throw on an I/O error when it is there.
getLatestForecast(readOk) ==
  IF latestForecast = NoFile
    THEN [ok |-> FALSE, text |-> <<>>, error |-> "ENOENT: no such file or directory"]
  ELSE IF ~readOk
    THEN [ok |-> FALSE, text |-> <<>>, error |-> "EIO: i/o error, read"]
  ELSE [ok |-> TRUE, text |-> Trim(latestForecast), error |-> "none"]

\* the forecast member of a response that has none
NoForecast == [amount |-> 0, percentChange |-> 0, trend |-> "absent"]

\* NextResponse.json(response)
ForecastResponse(forecastText) ==
  [status |-> 200, error |-> "none", forecast |-> parseForecastText(forecastText),
   lastUpdated |-> now, forecastText |-> forecastText, accuracy |-> "null"]

\* Mutation: the response carries the message of the error that was caught.
ForecastErrorResponse_Raw(error) ==
  [status |-> 500, error |-> error, forecast |-> NoForecast,
   lastUpdated |-> Null, forecastText |-> <<>>, accuracy |-> "null"]

\* catch (error): NextResponse.json({ error: 'Failed to generate forecast' }, { status: 500 })
ForecastErrorResponse(error) ==
  [status |-> 500, error |-> "Failed to generate forecast", forecast |-> NoForecast,
   lastUpdated |-> Null, forecastText |-> <<>>, accuracy |-> "null"]

\* The response of GET /api/forecast; the handler takes no request and no user.
ForecastGET_Response(readOk) ==
  LET r == getLatestForecast(readOk)
  IN IF r.ok THEN ForecastResponse(r.text) ELSE ForecastErrorResponse(r.error)

\* Mutation: "Option 1", the request runs the forecast model and serves its output.
ServeForecast_RunModel(readOk) ==
  /\ modelRuns < MaxRuns
  /\ modelRuns' = modelRuns + 1
  /\ fresp' = ForecastGET_Response(readOk)
  /\ readsSincePublish' =
       IF fresp'.status = 200
         THEN readsSincePublish \cup
                {[lastUpdated |-> fresp'.lastUpdated, forecast |-> fresp'.forecast]}
         ELSE readsSincePublish
  /\ UNCHANGED <<latestForecast, staging, job>>

\* what the server does for one GET /api/forecast
ServeForecast(readOk) ==
  /\ fresp' = ForecastGET_Response(readOk)
  /\ readsSincePublish' =
       IF fresp'.status = 200
         THEN readsSincePublish \cup
                {[lastUpdated |-> fresp'.lastUpdated, forecast |-> fresp'.forecast]}
         ELSE readsSincePublish
  /\ UNCHANGED <<latestForecast, staging, job, modelRuns>>

\* Mutation: a request that fails removes the expenses it could not forecast from.
ForecastGET_Writes(readOk) ==
  /\ ServeForecast(readOk)
  /\ expenses' = IF fresp'.status = 500 THEN {} ELSE expenses
  /\ UNCHANGED <<categories, budgets, recurringExpenses, nextId, nextCategoryId,
                 resp, now, hook>>

\* GET /api/forecast
ForecastGET(readOk) ==
  /\ ServeForecast(readOk)
  /\ UNCHANGED <<db, resp, now, hook>>

\* -------------------------------------------------- lib/hooks/useForecast.ts
NoData == [forecast |-> NoForecast, forecastText |-> <<>>, lastUpdated |-> Null]

\* useState initial values: a page that mounts the hook
useForecast_mount ==
  /\ hook' = [status |-> "loading", data |-> NoData, error |-> "null"]
  /\ UNCHANGED <<db, resp, now, latestForecast, staging, job, modelRuns, fresp,
                 readsSincePublish>>

\* fetchForecast of the effect: the request, then setData/setStatus or
\* setError/setStatus.  fetch rejects when the server is not reached.
fetchForecast(reached, readOk) ==
  /\ hook.status = "loading"
  /\ IF reached
       THEN /\ ServeForecast(readOk)
            /\ hook' = IF fresp'.status = 200
                         THEN [status |-> "success",
                               data |-> [forecast |-> fresp'.forecast,
                                         forecastText |-> fresp'.forecastText,
                                         lastUpdated |-> fresp'.lastUpdated],
                               error |-> "null"]
                         ELSE [hook EXCEPT !.status = "error", !.error = "API error: 500"]
       ELSE /\ hook' = [hook EXCEPT !.status = "error", !.error = "Failed to fetch"]
            /\ UNCHANGED fvarsServer
  /\ UNCHANGED <<db, resp, now>>

\* ---------------------------------------- components/insights/AIInsights.tsx
\* the text of the 'Spending Forecast' card, as a token sequence
getForecastContent(h) ==
  IF h.status = "loading" THEN <<"Loading forecast...">>
  ELSE IF h.status = "error" THEN <<"Unable to generate forecast at this time.">>
  ELSE IF h.data.forecastText # <<>> THEN h.data.forecastText
  ELSE IF h.data.forecast # NoForecast
    THEN <<"Based on your history, you're projected to spend ",
           ToString(h.data.forecast.amount), " next month, which is ",
           ToString(h.data.forecast.percentChange), "% ", h.data.forecast.trend,
           " than this month.">>
  ELSE <<"Forecast data unavailable.">>

\* ------------------------------------- ml_pipeline (Forecast Publisher, 4.5)
\* The texts a run of the forecast model produces.
ForecastTexts ==
  { <<"spend", " ", "$", "1", ",", "2", "5", "0", " ", "1", "2", "%", " ", "higher", "\n">>,
    <<"$", "9", "8", "0", " ", "5", "%", " ", "lower">>,
    <<"$", "1", ",", "2", "3", "4", ",", "5", "6", "7", "\n">> }

\* the timer starts the batch job of a user: extract, fit, predict
RunStart(u) ==
  /\ job[u] = "idle"
  /\ modelRuns < MaxRuns
  /\ job' = [job EXCEPT ![u] = "fitting"]
  /\ modelRuns' = modelRuns + 1
  /\ UNCHANGED <<db, resp, now, latestForecast, staging, fresp, hook, readsSincePublish>>

\* ModelFitError, PublishError or a timeout: the run ends, its temporary
\* file is dropped, the published artifact stays as it was
RunFail(u) ==
  /\ job[u] \in {"fitting", "writing", "staged"}
  /\ job' = [job EXCEPT ![u] = "idle"]
  /\ staging' = [staging EXCEPT ![u] = NoStaging]
  /\ UNCHANGED <<db, resp, now, latestForecast, modelRuns, fresp, hook, readsSincePublish>>

\* publish, step 1: start writing the result to the temporary location
PublishWrite(u, text) ==
  /\ job[u] = "fitting"
  /\ job' = [job EXCEPT ![u] = "writing"]
  /\ staging' = [staging EXCEPT ![u] = [text |-> text, written |-> Len(text) \div 2]]
  /\ UNCHANGED <<db, resp, now, latestForecast, modelRuns, fresp, hook, readsSincePublish>>

\* publish, step 2: the temporary file is complete
PublishFlush(u) ==
  /\ job[u] = "writing"
  /\ job' = [job EXCEPT ![u] = "staged"]
  /\ staging' = [staging EXCEPT ![u].written = Len(staging[u].text)]
  /\ UNCHANGED <<db, resp, now, latestForecast, modelRuns, fresp, hook, readsSincePublish>>

\* publish, step 3: rename the temporary file over latest_forecast.txt
PublishRename(u) ==
  /\ job[u] = "staged"
  /\ latestForecast' = StagingContent(u)
  /\ staging' = [staging EXCEPT ![u] = NoStaging]
  /\ job' = [job EXCEPT ![u] = "idle"]
  /\ readsSincePublish' = {}
  /\ UNCHANGED <<db, resp, now, modelRuns, fresp, hook>>

\* ------------------------------------------------------------------- clock
Tick ==
  /\ now < MaxClock
  /\ now' = now + 1
  /\ UNCHANGED <<db, resp, fvars>>

\* ------------------------------------------------------------------ inputs
ExpenseQueries ==
  [startDate : {Null, 2}, endDate : {Null}, categoryId : {Null, StaticCategoryId},
   minAmount : {Undef, "20"}, maxAmount : {Undef}]
ExpenseBodies ==
  [id : {Null}, amount : {Undef, "10"}, description : {"lunch"},
   date : {1, BadDate}, categoryId : {Null, StaticCategoryId}, paymentMethod : {Undef},
   location : {Undef}]
ExpensePutBodies ==
  [id : IdParams, amount : {Undef, "20"}, description : {"lunch"},
   date : {1}, categoryId : {Null, StaticCategoryId}, paymentMethod : {Undef},
   location : {Undef}]
ExpensePatchBodies ==
  [amount : {Undef, "20"}, description : {Undef}, date : {Null},
   categoryId : {Null, StaticCategoryId}, paymentMethod : {Undef}, location : {Undef},
   isRecurring : {Undef}]
BudgetQueries == [categoryId : {Null, StaticCategoryId}, period : {Undef, "yearly"}]
BudgetBodies ==
  [id : {Null}, amount : {Undef, "10"}, period : {"monthly"},
   startDate : {1}, categoryId : {Null, StaticCategoryId}]
BudgetPutBodies ==
  [id : IdParams, amount : {Undef, "20"}, period : {"monthly"},
   startDate : {1}, categoryId : {Null, StaticCategoryId}]
BudgetPatchBodies ==
  [amount : {Undef, "20"}, period : {Undef, "daily"}, startDate : {Null},
   categoryId : {Null, StaticCategoryId, ClearCategory}]
RecurringQueries ==
  [categoryId : {Null, StaticCategoryId}, frequency : {Undef, "yearly"},
   active : {Undef, "true"}]
RecurringJoinedQueries == [categoryId : {Null, StaticCategoryId}, id : IdParams]
RecurringBodies ==
  [id : {Null}, amount : {Undef, "10"}, description : {"rent"},
   frequency : {"monthly"}, startDate : {1}, endDate : {Null},
   categoryId : {Null, StaticCategoryId}]
RecurringPutBodies ==
  [id : IdParams, amount : {Undef, "20"}, description : {"rent"},
   frequency : {"monthly"}, startDate : {1}, endDate : {Null},
   categoryId : {StaticCategoryId}]
RecurringPatchBodies ==
  [amount : {Undef, "20"}, description : {Undef}, frequency : {Undef, "daily"},
   startDate : {Null}, endDate : {Null, ClearDate}, categoryId : {Null}]
CategoryBodies == [name : {Undef, "Travel"}, color : {Undef}, icon : {Undef}]
StatisticsQueries == [startDate : {1}, endDate : {1, 2}]

\* ----------------------------------------------------------- specification
Init ==
  /\ categories = {}
  /\ expenses = {}
  /\ budgets = {}
  /\ recurringExpenses = {}
  /\ nextId = 1
  /\ nextCategoryId = 1
  /\ now = 1
  /\ resp = Reply(NoUser, 0)
  /\ latestForecast = NoFile
  /\ staging = [u \in Users |-> NoStaging]
  /\ job = [u \in Users |-> "idle"]
  /\ modelRuns = 0
  /\ fresp = [status |-> 0, error |-> "none", forecast |-> NoForecast,
              lastUpdated |-> Null, forecastText |-> <<>>, accuracy |-> "null"]
  /\ hook = [status |-> "loading", data |-> NoData, error |-> "null"]
  /\ readsSincePublish = {}

\* The data routes.
Next ==
  \/ \E u \in Callers, q \in ExpenseQueries : ExpensesGET(u, q)
  \/ \E u \in Callers, b \in ExpenseBodies : ExpensesPOST(u, b)
  \/ \E u \in Callers, b \in ExpensePutBodies : ExpensesPUT(u, b)
  \/ \E u \in Callers, id \in IdParams : ExpensesDELETE(u, id)
  \/ \E u \in Callers, b \in ExpenseBodies : ExpensesPOST_WithCategory(u, b)
  \/ \E u \in Callers, b \in ExpenseBodies : ExpensesPOST_Static(u, b)
  \/ \E u \in Callers, id \in IdInputs : ExpenseByIdGET(u, id)
  \/ \E u \in Callers, id \in IdInputs, b \in ExpensePatchBodies : ExpenseByIdPUT(u, id, b)
  \/ \E u \in Callers, id \in IdInputs : ExpenseByIdDELETE(u, id)
  \/ \E u \in Callers, q \in BudgetQueries : BudgetsGET(u, q)
  \/ \E u \in Callers, b \in BudgetBodies : BudgetsPOST(u, b)
  \/ \E u \in Callers : BudgetsGET_WithCategories(u)
  \/ \E u \in Callers, b \in BudgetBodies : BudgetsPOST_Checked(u, b)
  \/ \E u \in Callers, b \in BudgetPutBodies : BudgetsPUT(u, b)
  \/ \E u \in Callers, id \in IdParams : BudgetsDELETE(u, id)
  \/ \E u \in Callers, id \in IdInputs : BudgetByIdGET(u, id)
  \/ \E u \in Callers, id \in IdInputs, b \in BudgetPatchBodies : BudgetByIdPUT(u, id, b)
  \/ \E u \in Callers, id \in IdInputs : BudgetByIdDELETE(u, id)
  \/ \E u \in Callers, q \in RecurringQueries : RecurringGET(u, q)
  \/ \E u \in Callers, b \in RecurringBodies : RecurringPOST(u, b)
  \/ \E u \in Callers, q \in RecurringJoinedQueries : RecurringGET_Joined(u, q)
  \/ \E u \in Callers, b \in RecurringBodies : RecurringPOST_Joined(u, b)
  \/ \E u \in Callers, b \in RecurringPutBodies : RecurringPUT(u, b)
  \/ \E u \in Callers, id \in IdParams : RecurringDELETE(u, id)
  \/ \E u \in Callers, id \in IdInputs : RecurringByIdGET(u, id)
  \/ \E u \in Callers, id \in IdInputs, b \in RecurringPatchBodies : RecurringByIdPUT(u, id, b)
  \/ \E u \in Callers, id \in IdInputs : RecurringByIdDELETE(u, id)
  \/ \E u \in Callers, id \in CategoryIdInputs : CategoryByIdGET(u, id)
  \/ \E u \in Callers, id \in CategoryIdInputs, b \in CategoryBodies : CategoryByIdPUT(u, id, b)
  \/ \E u \in Callers, id \in CategoryIdInputs : CategoryByIdDELETE(u, id)
  \/ \E u \in Callers, q \in StatisticsQueries : StatisticsGET(u, q)
  \/ \E u \in Callers, q \in StatisticsQueries : StatisticsGET_Mock(u, q)
  \/ \E u \in Callers, q \in StatisticsQueries : StatisticsGET_Monthly(u, q)
  \/ \E u \in Callers : UserProfileGET(u)

Spec == Init /\ [][Next]_vars

\* The forecast endpoint, the pipeline that publishes the artifact and the
\* clock, over a database that fills.
NextForecast ==
  \/ \E readOk \in BOOLEAN : ForecastGET(readOk)
  \/ \E u \in Users : RunStart(u)
  \/ \E u \in Users : RunFail(u)
  \/ \E u \in Users, text \in ForecastTexts : PublishWrite(u, text)
  \/ \E u \in Users : PublishFlush(u)
  \/ \E u \in Users : PublishRename(u)
  \/ Tick
  \/ \E b \in ExpenseBodies : ExpensesPOST("u1", b)

SpecForecast == Init /\ [][NextForecast]_vars

\* The page with the insights card, its requests to the forecast endpoint
\* and the pipeline.
NextInsights ==
  \/ useForecast_mount
  \/ \E reached \in BOOLEAN, readOk \in BOOLEAN : fetchForecast(reached, readOk)
  \/ \E u \in Users : RunStart(u)
  \/ \E u \in Users : RunFail(u)
  \/ \E u \in Users, text \in ForecastTexts : PublishWrite(u, text)
  \/ \E u \in Users : PublishFlush(u)
  \/ \E u \in Users : PublishRename(u)

SpecInsights == Init /\ [][NextInsights]_vars

\* The statistics endpoint over a ledger with expenses in three months.
StatisticsExpenseBodies ==
  [id : {Null}, amount : {"10", "20"}, description : {"lunch"},
   date : {1, FirstOfMonth(1), FirstOfMonth(2)}, categoryId : {Null},
   paymentMethod : {Undef}, location : {Undef}]

StatisticsRangeQueries ==
  [startDate : {Null, FirstOfMonth(1), FirstOfMonth(2)},
   endDate : {Null, FirstOfMonth(3) - 1}]

NextStatistics ==
  \/ \E u \in Users, b \in StatisticsExpenseBodies : ExpensesPOST(u, b)
  \/ \E u \in Users, id \in IdParams : ExpensesDELETE(u, id)
  \/ \E u \in Callers, q \in StatisticsRangeQueries : StatisticsGET(u, q)
  \/ \E u \in Callers, q \in StatisticsRangeQueries : StatisticsGET_Mock(u, q)
  \/ \E u \in Callers, q \in StatisticsRangeQueries : StatisticsGET_Monthly(u, q)
  \/ Tick

SpecStatistics == Init /\ [][NextStatistics]_vars

\* The expense writers over bodies with missing, zero and negative fields.
ExpenseInputBodies ==
  [id : {Null}, amount : {Undef, NumberZero, "10", "-5"},
   description : {Undef, "lunch"}, date : {Null, 1},
   categoryId : {Null, StaticCategoryId}, paymentMethod : {Undef},
   location : {Undef}]

ExpenseInputPutBodies ==
  [id : IdParams, amount : {"20", "-5"}, description : {"dinner"},
   date : {1}, categoryId : {Null}, paymentMethod : {Undef}, location : {Undef}]

ExpenseInputPatchBodies ==
  [amount : {Undef, "-5"}, description : {Undef}, date : {Null},
   categoryId : {Null}, paymentMethod : {Undef}, location : {Undef},
   isRecurring : {Undef}]

NextExpenseInput ==
  \/ \E u \in Callers, b \in ExpenseInputBodies : ExpensesPOST(u, b)
  \/ \E u \in Users, b \in ExpenseInputBodies : ExpensesPOST_WithCategory(u, b)
  \/ \E u \in Users, b \in ExpenseInputBodies : ExpensesPOST_Static(u, b)
  \/ \E u \in Users, b \in ExpenseInputPutBodies : ExpensesPUT(u, b)
  \/ \E u \in Users, id \in IdInputs, b \in ExpenseInputPatchBodies :
       ExpenseByIdPUT(u, id, b)
  \/ \E u \in Callers, id \in IdParams : ExpensesDELETE(u, id)

SpecExpenseInput == Init /\ [][NextExpenseInput]_vars

\* The budget and recurring-expense writers over bodies whose period or
\* frequency is outside the three values the validation names.
PeriodBudgetBodies ==
  [id : {Null}, amount : {"10"}, period : {Undef, "monthly", "daily"},
   startDate : {1}, categoryId : {Null}]

PeriodBudgetPutBodies ==
  [id : IdParams, amount : {"20"}, period : {"yearly", "daily"},
   startDate : {1}, categoryId : {Null}]

PeriodBudgetPatchBodies ==
  [amount : {Undef, "20"}, period : {Undef, "weekly", "daily"},
   startDate : {Null}, categoryId : {Null}]

FrequencyBodies ==
  [id : {Null}, amount : {"10"}, description : {"rent"},
   frequency : {Undef, "monthly", "biweekly"}, startDate : {1},
   endDate : {Null}, categoryId : {StaticCategoryId}]

FrequencyPutBodies ==
  [id : IdParams, amount : {"20"}, description : {"rent"},
   frequency : {"yearly", "quarterly"}, startDate : {1}, endDate : {Null},
   categoryId : {StaticCategoryId}]

FrequencyPatchBodies ==
  [amount : {Undef, "20"}, description : {Undef},
   frequency : {Undef, "weekly", "biweekly"}, startDate : {Null},
   endDate : {Null}, categoryId : {Null}]

NextPeriods ==
  \/ \E u \in Users, b \in ExpenseBodies : ExpensesPOST_WithCategory(u, b)
  \/ \E u \in Users, b \in PeriodBudgetBodies : BudgetsPOST(u, b)
  \/ \E u \in Users, b \in PeriodBudgetBodies : BudgetsPOST_Checked(u, b)
  \/ \E u \in Users, b \in PeriodBudgetPutBodies : BudgetsPUT(u, b)
  \/ \E u \in Users, id \in IdInputs, b \in PeriodBudgetPatchBodies :
       BudgetByIdPUT(u, id, b)
  \/ \E u \in Users, b \in FrequencyBodies : RecurringPOST(u, b)
  \/ \E u \in Users, b \in FrequencyBodies : RecurringPOST_Joined(u, b)
  \/ \E u \in Users, b \in FrequencyPutBodies : RecurringPUT(u, b)
  \/ \E u \in Users, id \in IdInputs, b \in FrequencyPatchBodies :
       RecurringByIdPUT(u, id, b)

SpecPeriods == Init /\ [][NextPeriods]_vars

\* PUT /api/expenses/[id] over bodies that carry no field, one field, or
\* every field: each field occurs both present and absent.
NoUpdates ==
  [amount |-> Undef, description |-> Undef, date |-> Null, categoryId |-> Null,
   paymentMethod |-> Undef, location |-> Undef, isRecurring |-> Undef]

PartialUpdateBodies ==
  { NoUpdates,
    [NoUpdates EXCEPT !.amount = "20"],
    [NoUpdates EXCEPT !.description = "dinner"],
    [amount |-> "20", description |-> "dinner", date |-> 2,
     categoryId |-> StaticCategoryId, paymentMethod |-> "card",
     location |-> "cafe", isRecurring |-> "true"] }

PartialUpdateCreateBodies ==
  [id : {Null}, amount : {"10"}, description : {"lunch"}, date : {1, BadDate},
   categoryId : {Null, StaticCategoryId}, paymentMethod : {Undef},
   location : {Undef}]

NextPartialUpdate ==
  \/ \E b \in PartialUpdateCreateBodies : ExpensesPOST_WithCategory("u1", b)
  \/ \E u \in Users, id \in IdInputs, b \in PartialUpdateBodies :
       ExpenseByIdPUT(u, id, b)
  \/ Tick

SpecPartialUpdate == Init /\ [][NextPartialUpdate]_vars

\* Creation, deletion and the requests by id of the three kinds of record.
NextDelete ==
  \/ \E u \in Users, b \in ExpenseBodies : ExpensesPOST_WithCategory(u, b)
  \/ \E u \in Users, b \in BudgetBodies : BudgetsPOST(u, b)
  \/ \E u \in Users, b \in RecurringBodies : RecurringPOST(u, b)
  \/ \E u \in Users, id \in IdParams : ExpensesDELETE(u, id)
  \/ \E u \in Users, id \in IdInputs : ExpenseByIdDELETE(u, id)
  \/ \E u \in Users, id \in IdParams : BudgetsDELETE(u, id)
  \/ \E u \in Users, id \in IdInputs : BudgetByIdDELETE(u, id)
  \/ \E u \in Users, id \in IdParams : RecurringDELETE(u, id)
  \/ \E u \in Users, id \in IdInputs : RecurringByIdDELETE(u, id)
  \/ \E u \in Users, id \in IdInputs : ExpenseByIdGET(u, id)
  \/ \E u \in Users, id \in IdInputs : BudgetByIdGET(u, id)
  \/ \E u \in Users, id \in IdInputs : RecurringByIdGET(u, id)
  \/ \E u \in Users, b \in ExpensePutBodies : ExpensesPUT(u, b)
  \/ \E u \in Users, id \in IdInputs, b \in ExpensePatchBodies : ExpenseByIdPUT(u, id, b)
  \/ \E u \in Users, b \in BudgetPutBodies : BudgetsPUT(u, b)
  \/ \E u \in Users, id \in IdInputs, b \in BudgetPatchBodies : BudgetByIdPUT(u, id, b)
  \/ \E u \in Users, b \in RecurringPutBodies : RecurringPUT(u, b)
  \/ \E u \in Users, id \in IdInputs, b \in RecurringPatchBodies :
       RecurringByIdPUT(u, id, b)

SpecDelete == Init /\ [][NextDelete]_vars

\* The category routes over default categories (made by the first expense of
\* a user) and categories made from the id of the form.
CategoryRouteIds == {1, 2, StaticCategoryId}

NextCategories ==
  \/ \E u \in Users, b \in ExpenseBodies : ExpensesPOST(u, b)
  \/ \E u \in Users, b \in ExpenseBodies : ExpensesPOST_WithCategory(u, b)
  \/ \E u \in Users, id \in IdInputs : ExpensesDELETE(u, id)
  \/ \E u \in Callers, id \in CategoryRouteIds : CategoryByIdGET(u, id)
  \/ \E u \in Callers, id \in CategoryRouteIds, b \in CategoryBodies :
       CategoryByIdPUT(u, id, b)
  \/ \E u \in Callers, id \in CategoryRouteIds : CategoryByIdDELETE(u, id)
  \/ Tick

SpecCategories == Init /\ [][NextCategories]_vars

\* ------------------------------------------------------------------ claims
\* C1: a request without an authenticated user is answered 401 by every data
\* route handler, and no table row or id counter changes.
C1_UnauthorizedIs401 ==
  [][resp'.user = NoUser => (resp'.status = 401 /\ UNCHANGED db)]_vars

\* an unauthenticated request was answered while the tables hold data
C1_Witness ==
  /\ resp = Unauthorized
  /\ categories # {}
  /\ expenses \cup budgets \cup recurringExpenses # {}

C3_Statuses(validationFirst) ==
  \A u \in Users :
    /\ \A id \in IdInputs :
         /\ Find(expenses, id, u) = {} =>
              /\ \A b \in ExpensePutBodies : b.id = id => ExpensesPUT_Status(u, b) =
                     IF validationFirst /\ MissingExpenseFields(b) THEN 400 ELSE 404
              /\ ExpensesDELETE_Status(u, id) = 404
              /\ \A b \in ExpensePatchBodies : ExpenseByIdPUT_Status(u, id, b) = 404
              /\ ExpenseByIdDELETE_Status(u, id) = 404
         /\ Find(budgets, id, u) = {} =>
              /\ \A b \in BudgetPutBodies : b.id = id => BudgetsPUT_Status(u, b) =
                     IF validationFirst /\ MissingBudgetFields(b) THEN 400 ELSE 404
              /\ BudgetsDELETE_Status(u, id) = 404
              /\ \A b \in BudgetPatchBodies : BudgetByIdPUT_Status(u, id, b) = 404
              /\ BudgetByIdDELETE_Status(u, id) = 404
         /\ Find(recurringExpenses, id, u) = {} =>
              /\ \A b \in RecurringPutBodies : b.id = id => RecurringPUT_Status(u, b) =
                     IF validationFirst /\ MissingRecurringFields(b) THEN 400 ELSE 404
              /\ RecurringDELETE_Status(u, id) = 404
              /\ \A b \in RecurringPatchBodies : RecurringByIdPUT_Status(u, id, b) = 404
              /\ RecurringByIdDELETE_Status(u, id) = 404
    /\ \A id \in CategoryIdInputs :
         Find(categories, id, u) = {} =>
           /\ \A b \in CategoryBodies : CategoryByIdPUT_Status(u, id, b) = 404
           /\ CategoryByIdDELETE_Status(u, id) = 404

\* C3 as stated: a PUT or DELETE addressed to a record that does not exist or
\* belongs to another user is answered 404.
C3_NotFound == C3_Statuses(FALSE)

\* C3, amended: such a PUT or DELETE is answered 404, or 400 when the PUT
\* carries the id in its body and lacks a required field, and an answer of
\* 404 or 400 leaves every table as it was.
C3_NotFoundOrBadRequest ==
  /\ []C3_Statuses(TRUE)
  /\ [][resp'.status \in {400, 404} => UNCHANGED db]_vars

\* u1 was answered 404 while the addressed id is a record of u2
C3_Witness ==
  /\ resp = Reply("u1", 404)
  /\ \E r \in recurringExpenses : r.userId = "u2" /\ r.id \in IdInputs
  /\ \E c \in categories : c.userId = "u2" /\ c.id \in CategoryIdInputs

\* C4: a forecast request serves the parse of the trimmed artifact, and no
\* step that answers one starts a pipeline job or runs the model.
C4_ReadsOnly ==
  [][fresp' # fresp =>
       /\ UNCHANGED <<modelRuns, job>>
       /\ fresp'.status = 200 =>
            /\ fresp'.forecastText = Trim(latestForecast)
            /\ fresp'.forecast = parseForecastText(Trim(latestForecast))]_vars

\* a forecast was served although the model was never run after the artifact appeared
C4_Witness ==
  /\ fresp.status = 200
  /\ fresp.forecast.amount = 1250
  /\ modelRuns = 1
  /\ \A u \in Users : job[u] = "idle"

\* C5: a forecast request, answered or failed, leaves the artifact, the
\* temporary files and every table unchanged.
C5_SideEffectFree ==
  [][fresp' # fresp => UNCHANGED <<latestForecast, staging, db>>]_vars

\* a failed read, with an artifact published and an expense stored
C5_Witness ==
  /\ fresp.status = 500
  /\ latestForecast # NoFile
  /\ expenses # {}

\* C6: once an artifact is published, every forecast request is answered with
\* the forecast of the artifact and never with an error.
C6_AlwaysServed ==
  [][(latestForecast # NoFile /\ fresp' # fresp) =>
       (fresp'.status = 200 /\ fresp'.forecastText = Trim(latestForecast))]_vars

\* the messages of the errors a read can throw
RawErrors == {"ENOENT: no such file or directory", "EIO: i/o error, read"}

\* C7: a failed forecast request carries the fixed message and nothing of the
\* error, and the card of a failed fetch shows the fixed sentence.
C7_NoRawError ==
  /\ fresp.status = 500 =>
       /\ fresp.error = "Failed to generate forecast"
       /\ fresp.forecastText = <<>>
  /\ fresp.error \notin RawErrors
  /\ hook.status = "error" =>
       getForecastContent(hook) = <<"Unable to generate forecast at this time.">>
  /\ \A i \in 1 .. Len(getForecastContent(hook)) :
       getForecastContent(hook)[i] \notin RawErrors \cup {hook.error}

\* the read of a published artifact failed and the page is in its error state
C7_Witness ==
  /\ fresp.status = 500
  /\ latestForecast # NoFile
  /\ hook.status = "error"
  /\ hook.error = "API error: 500"

\* C8: the artifact is always absent or one complete text, a served forecast
\* is the trim of one complete text, and a run that ends without renaming
\* leaves the artifact as it was.
C8_AtomicPublish ==
  /\ [](latestForecast \in ForecastTexts \cup {NoFile})
  /\ [](fresp.status = 200 => \E t \in ForecastTexts : fresp.forecastText = Trim(t))
  /\ [][(\E u \in Users : job[u] \in {"fitting", "writing"} /\ job'[u] = "idle")
          => latestForecast' = latestForecast]_vars

\* a forecast has been served and a temporary file is half written
C8_Witness ==
  /\ fresp.status = 200
  /\ latestForecast # NoFile
  /\ \E u \in Users : job[u] = "writing" /\ StagingContent(u) # staging[u].text

\* C9: the artifact a user's forecast is read from changes only in steps of
\* that user's own pipeline job.
C9_Isolated ==
  [][\A a \in Users : job'[a] = job[a] => latestForecast' = latestForecast]_vars

\* C10: the reads of one published artifact all carry the same timestamp and
\* the same forecast fields.
C10_SameRead == Cardinality(readsSincePublish) <= 1

\* C11: a served forecast whose percent change is zero or could not be read
\* from the text is never reported with the rising trend ('higher').
C11_TrendThreeValued ==
  fresp.status = 200 /\ fresp.forecast.percentChange = 0
    => fresp.forecast.trend # "higher"

\* C12: the monthly change answered to a user whose previous-month total is 0
\* is 100 when something was spent in the period and 0 when nothing was.
C12_ZeroBaseline ==
  \A u \in Users, q \in StatisticsRangeQueries :
    resp = Reply(u, 200) /\ previousMonthExpenses(u, q) = 0 =>
      monthlyChange(u, q) =
        IF totalExpenses(u, q) > 0 THEN Percent(100, 1) ELSE Percent(0, 1)

\* C12, revision that builds the series month by month: the same statement
\* for its previous-month and current-month totals.
C12_ZeroBaseline_Monthly ==
  \A u \in Users :
    resp = Reply(u, 200) /\ previousMonthTotal(u) = 0 =>
      monthlyChange_Monthly(u) =
        IF currentMonthTotal(u) > 0 THEN Percent(100, 1) ELSE Percent(0, 1)

\* C13: the series answered to a user is strictly increasing by month and
\* has an entry for every month from the first month of its range (the month
\* of the start date one year earlier) to the month of the end date.
C13_NoGaps ==
  \A u \in Users, q \in StatisticsRangeQueries :
    resp = Reply(u, 200) =>
      LET s == expensesOverTime(u, q)
          first == getMonth(StatisticsStartDate(q)) - MonthsPerYear
          last == getMonth(StatisticsEndDate(q))
      IN /\ \A i \in 1 .. Len(s) - 1 : s[i].month < s[i + 1].month
         /\ \A m \in first .. last : \E i \in 1 .. Len(s) : s[i].month = m

\* C13, revision that builds the series month by month: strictly increasing,
\* one entry for every month from the start date's to the end date's, and a
\* month without expenses has total 0.
C13_NoGaps_Monthly ==
  \A u \in Users, q \in StatisticsRangeQueries :
    LET s == expensesOverTime_Monthly(u, q)
    IN /\ \A i \in 1 .. Len(s) - 1 : s[i].month + 1 = s[i + 1].month
       /\ \A m \in getMonth(StatisticsStartDate(q)) .. getMonth(StatisticsEndDate(q)) :
            \E i \in 1 .. Len(s) : s[i].month = m
       /\ \A i \in 1 .. Len(s) : s[i].count = 0 => s[i].total = 0

\* C14: every stored expense has an amount that is a number and is at least 0.
C14_NonNegativeAmount == \A r \in expenses : r.amount # NaN /\ r.amount >= 0

\* what the request body carries: a required field that is not in the body
AbsentExpenseFields(body) ==
  body.amount = Undef \/ body.description = Undef \/ body.date = Null

\* C15: POST /api/expenses answers 400 exactly when amount, description or
\* date is not in the request body, and a 400 answer inserts no expense and
\* no category.
C15_MissingIff400 ==
  [][\A u \in Users, b \in ExpenseInputBodies :
       ExpensesPOST(u, b) =>
         /\ resp'.status = 400 <=> AbsentExpenseFields(b)
         /\ resp'.status = 400 => UNCHANGED <<expenses, categories>>]_vars

\* C15 with 'missing' read as JavaScript-falsy (absent, null, "" or the
\* number 0): the reading under which the handler's test is exact.
C15_FalsyIff400 ==
  [][\A u \in Users, b \in ExpenseInputBodies :
       ExpensesPOST(u, b) =>
         /\ resp'.status = 400 <=> MissingExpenseFields(b)
         /\ resp'.status = 400 => UNCHANGED <<expenses, categories>>]_vars

\* C16: a PUT or DELETE by the owner of a default category is answered 403,
\* a 403 answer changes no table, and a default category that exists is in
\* the table unchanged after every step.
C16_DefaultCategoryKept ==
  /\ [](\A u \in Users, id \in CategoryRouteIds :
          (\E c \in Find(categories, id, u) : c.isDefault) =>
            /\ \A b \in CategoryBodies : CategoryByIdPUT_Status(u, id, b) = 403
            /\ CategoryByIdDELETE_Status(u, id) = 403)
  /\ [][/\ resp'.status = 403 => UNCHANGED db
        /\ \A c \in categories : c.isDefault => c \in categories']_vars

\* the owner of a default category that no record refers to any more has
\* been refused
C16_Witness ==
  /\ resp.status = 403
  /\ \E c \in categories :
       c.isDefault /\ c.userId = resp.user /\ ~CategoryReferenced(c.id)

\* C17: every stored budget has a period that is weekly, monthly or yearly.
C17_ValidPeriod == \A r \in budgets : r.period \in ValidPeriods

\* C17, the handlers that carry the period test: POST /api/budgets of the
\* earlier revision and PUT /api/budgets/[id] answer an invalid period with
\* 400 and change no table, whatever else the body carries.
C17_TestedHandlersRefuse ==
  [][/\ \A u \in Users, b \in PeriodBudgetBodies :
          b.period = "daily" /\ BudgetsPOST(u, b) =>
            resp'.status = 400 /\ UNCHANGED db
     /\ \A u \in Users, id \in IdInputs, b \in PeriodBudgetPatchBodies :
          b.period = "daily" /\ Find(budgets, id, u) # {} /\ BudgetByIdPUT(u, id, b) =>
            resp'.status = 400 /\ UNCHANGED db]_vars

\* C18: every stored recurring expense has a frequency that is weekly,
\* monthly or yearly.
C18_ValidFrequency == \A r \in recurringExpenses : r.frequency \in ValidFrequencies

\* C18, the handlers that carry the frequency test: POST /api/recurring-expenses
\* and PUT /api/recurring-expenses/[id] answer an invalid frequency with 400
\* and change no table.
C18_TestedHandlersRefuse ==
  [][/\ \A u \in Users, b \in FrequencyBodies :
          b.frequency = "biweekly" /\ RecurringPOST(u, b) =>
            resp'.status = 400 /\ UNCHANGED db
     /\ \A u \in Users, id \in IdInputs, b \in FrequencyPatchBodies :
          b.frequency = "biweekly" /\ Find(recurringExpenses, id, u) # {}
            /\ RecurringByIdPUT(u, id, b) =>
            resp'.status = 400 /\ UNCHANGED db]_vars

\* C19: a PUT /api/expenses/[id] answered 200 replaces the addressed expense
\* by a row that has the body's value in every field the body carries, the
\* time of the request in updatedAt and the old value in every other field
\* (id, userId and createdAt included); all other rows stay as they were.
C19_PartialUpdate ==
  [][\A u \in Users, id \in IdInputs, b \in PartialUpdateBodies :
       resp' = Reply(u, 200) /\ ExpenseByIdPUT(u, id, b) =>
         /\ UNCHANGED <<categories, budgets, recurringExpenses>>
         /\ \E old \in Find(expenses, id, u), new \in expenses' :
              /\ expenses' \ {new} = expenses \ {old}
              /\ new.id = old.id
              /\ new.userId = old.userId
              /\ new.createdAt = old.createdAt
              /\ new.updatedAt = now
              /\ new.amount = IF b.amount = Undef THEN old.amount ELSE 20
              /\ new.description =
                   IF b.description = Undef THEN old.description ELSE b.description
              /\ new.date = IF b.date = Null THEN old.date ELSE b.date
              /\ new.categoryId =
                   IF b.categoryId = Null THEN old.categoryId ELSE b.categoryId
              /\ new.paymentMethod =
                   IF b.paymentMethod = Undef THEN old.paymentMethod ELSE b.paymentMethod
              /\ new.location = IF b.location = Undef THEN old.location ELSE b.location
              /\ new.isRecurring = IF b.isRecurring = Undef THEN old.isRecurring ELSE TRUE]_vars

\* an expense created at time 1 was given a new amount at time 2 and kept
\* its description, date and creation time
C19_Witness ==
  /\ resp.status = 200
  /\ \E r \in expenses :
       /\ r.userId = resp.user
       /\ r.amount = 20 /\ r.description = "lunch" /\ r.date = 1
       /\ r.createdAt = 1 /\ r.updatedAt = 2

\* the id was given to a record and no table holds a record with it
Deleted(id) ==
  /\ id < nextId
  /\ \A r \in expenses \cup budgets \cup recurringExpenses : r.id # id

\* the statuses of the requests a user can address to a deleted id
C20_Statuses(validationFirst) ==
  \A u \in Users, id \in IdInputs :
    Deleted(id) =>
      /\ ExpenseByIdGET_Rows(u, id) = {}
      /\ BudgetByIdGET_Rows(u, id) = {}
      /\ RecurringByIdGET_Rows(u, id) = {}
      /\ ExpensesDELETE_Status(u, id) = 404
      /\ ExpenseByIdDELETE_Status(u, id) = 404
      /\ BudgetsDELETE_Status(u, id) = 404
      /\ BudgetByIdDELETE_Status(u, id) = 404
      /\ RecurringDELETE_Status(u, id) = 404
      /\ RecurringByIdDELETE_Status(u, id) = 404
      /\ \A b \in ExpensePatchBodies : ExpenseByIdPUT_Status(u, id, b) = 404
      /\ \A b \in BudgetPatchBodies : BudgetByIdPUT_Status(u, id, b) = 404
      /\ \A b \in RecurringPatchBodies : RecurringByIdPUT_Status(u, id, b) = 404
      /\ \A b \in ExpensePutBodies : b.id = id => ExpensesPUT_Status(u, b) =
             IF validationFirst /\ MissingExpenseFields(b) THEN 400 ELSE 404
      /\ \A b \in BudgetPutBodies : b.id = id => BudgetsPUT_Status(u, b) =
             IF validationFirst /\ MissingBudgetFields(b) THEN 400 ELSE 404
      /\ \A b \in RecurringPutBodies : b.id = id => RecurringPUT_Status(u, b) =
             IF validationFirst /\ MissingRecurringFields(b) THEN 400 ELSE 404

\* a step that takes a record out of its table is a request of the record's
\* owner answered 200, takes out that record alone and changes no other
\* table; and a deleted id stays deleted
C20_OnlyThatRecord ==
  /\ \A u \in Users, id \in IdInputs :
       /\ Find(expenses, id, u) # {} /\ Find(expenses', id, u) = {} =>
            /\ resp' = Reply(u, 200)
            /\ expenses' = expenses \ Find(expenses, id, u)
            /\ UNCHANGED <<categories, budgets, recurringExpenses>>
       /\ Find(budgets, id, u) # {} /\ Find(budgets', id, u) = {} =>
            /\ resp' = Reply(u, 200)
            /\ budgets' = budgets \ Find(budgets, id, u)
            /\ UNCHANGED <<categories, expenses, recurringExpenses>>
       /\ Find(recurringExpenses, id, u) # {} /\ Find(recurringExpenses', id, u) = {} =>
            /\ resp' = Reply(u, 200)
            /\ recurringExpenses' = recurringExpenses \ Find(recurringExpenses, id, u)
            /\ UNCHANGED <<categories, expenses, budgets>>
  /\ \A id \in IdInputs : Deleted(id) => Deleted(id)'

====
